---- MODULE Spec2Model ----
(***************************************************************************)
(* ValueRnnNetwork (tf_agents/networks/value_rnn_network.py): construction  *)
(* of the layer pipeline and one call of it, as a state machine.            *)
(*                                                                          *)
(* A tensor is [shape, dtype, layers, data]: layers lists the layers the     *)
(* tensor has passed through, in order, and data is the row-major list of   *)
(* its rows, one per position of the outer (batch / time) dimensions.  A    *)
(* row is symbolic: the list of the observation positions (and, as a        *)
(* negative marker, the passed-in recurrent state) it was computed from.    *)
(* Layers and the cell are uninterpreted: two rows are equal only if they   *)
(* were computed the same way from the same inputs.                         *)
(***************************************************************************)
EXTENDS Integers, Sequences, FiniteSets, TLC

\* ---------------------------------------------------------------- bounds
\* largest number of (batch, time) positions of an observation
MaxCells == 4
\* largest number of outer dimensions of an observation
MaxOuterRank == 3
\* largest number of observation specs in input_tensor_spec
MaxSpecs == 2

\* ------------------------------------------------------------ parameters
\* an optional argument: None, or a given value
NoneArg == [given |-> FALSE, val |-> <<>>]
Some(v) == [given |-> TRUE, val |-> v]

\* input_tensor_spec.shape of the single observation: height, width, channels
ObsShape == <<2, 2, 1>>

\* conv_layer_params: (filters, kernel_size, stride) triples
ConvChoices == {NoneArg, Some(<< <<2, 2, 1>> >>)}
\* input_fc_layer_params / output_fc_layer_params: units per layer
FcChoices == {NoneArg, Some(<<>>), Some(<<3, 2>>)}
\* lstm_size: one cell, or a stack
LstmChoices == {<<2>>, <<2, 3>>}

StepTypes == {"FIRST", "MID", "LAST"}
StepTypeFIRST == "FIRST"

\* ------------------------------------------------------------- tensors
RECURSIVE Product(_)
Product(s) == IF s = <<>> THEN 1 ELSE Head(s) * Product(Tail(s))

Last(s) == s[Len(s)]
Front(s) == SubSeq(s, 1, Len(s) - 1)
Take(s, n) == SubSeq(s, 1, n)
Drop(s, n) == SubSeq(s, n + 1, Len(s))

Layer(kind, units, kernel, stride) ==
  [kind |-> kind, units |-> units, kernel |-> kernel, stride |-> stride]

NoTensor == [shape |-> <<>>, dtype |-> "unset", layers |-> <<>>, data |-> <<>>]

\* the observation tensor of outer shape `outer`: row i comes from position i
ObservationOf(outer) ==
  [shape |-> outer \o ObsShape, dtype |-> "obs", layers |-> <<>>,
   data |-> [i \in 1..Product(outer) |-> <<i>>]]

\* tf.expand_dims(t, 1)
ExpandDims1(t) ==
  [t EXCEPT !.shape = <<t.shape[1], 1>> \o Tail(t.shape)]

\* tf.cast(t, tf.float32)
CastFloat32(t) == [t EXCEPT !.dtype = "float32"]

\* tf.reshape(t, [-1])
ReshapeFlat(t) == [t EXCEPT !.shape = <<Product(t.shape)>>]

\* row-major position of (b, t) in a [B, T, ...] tensor
Idx(b, t, T) == (b - 1) * T + t

\* ------------------------------------------------------------- layers
\* what calling a Keras layer on tensor t gives: the new trailing shape, and
\* the tensor marked as having passed the layer
OutShape(layer, s) ==
  CASE layer.kind = "conv" ->
         Take(s, Len(s) - 3)
           \o << (s[Len(s) - 2] - layer.kernel) \div layer.stride + 1,
                 (s[Len(s) - 1] - layer.kernel) \div layer.stride + 1,
                 layer.units >>
    [] layer.kind = "flatten" -> <<s[1], Product(Tail(s))>>
    [] OTHER -> Front(s) \o <<layer.units>>

LayerCall(layer, t) ==
  [t EXCEPT !.shape = OutShape(layer, t.shape), !.layers = Append(@, layer)]

\* for layer in layers: states = layer(states); run is [t, log], the tensor and
\* the log of the layers called with the shape each was given
RECURSIVE RunLayers(_, _)
RunLayers(layers, run) ==
  IF layers = <<>> THEN run
  ELSE RunLayers(Tail(layers),
                 [t |-> LayerCall(Head(layers), run.t),
                  log |-> Append(run.log, [layer |-> Head(layers),
                                           in_shape |-> run.t.shape])])

\* utils.mlp_layers(conv_layer_params, fc_layer_params, ...):
\* optional Conv2D layers, Flatten, optional Dense layers
MlpLayers(conv_layer_params, fc_layer_params) ==
  (IF conv_layer_params.given
     THEN [i \in DOMAIN conv_layer_params.val |->
             Layer("conv", conv_layer_params.val[i][1],
                   conv_layer_params.val[i][2], conv_layer_params.val[i][3])]
     ELSE <<>>)
  \o <<Layer("flatten", 0, 0, 0)>>
  \o (IF fc_layer_params.given
        THEN [i \in DOMAIN fc_layer_params.val |->
                Layer("dense", fc_layer_params.val[i], 0, 0)]
        ELSE <<>>)

\* the RNN cell: LSTMCell(lstm_size[0]), or StackedRNNCells of one per size
MakeCell(lstm_size) ==
  Layer("lstm", Last(lstm_size), Len(lstm_size), 0)

\* state_spec: one (h, c) pair of TensorSpecs per cell
StateSpec(lstm_size) ==
  [i \in DOMAIN lstm_size |-> <<lstm_size[i], lstm_size[i]>>]

\* output_layers: one Dense per entry, none when the parameter is None or empty
OutputLayers(output_fc_layer_params) ==
  IF output_fc_layer_params.given /\ output_fc_layer_params.val # <<>>
    THEN [i \in DOMAIN output_fc_layer_params.val |->
            Layer("dense", output_fc_layer_params.val[i], 0, 0)]
    ELSE <<>>

\* value_projection_layer: Dense(1, activation=None)
ValueProjectionLayer == Layer("value", 1, 0, 0)

\* variant: the check lets two specs through
TooManySpecsOffByOne(n_specs) == n_specs > 2

\* len(nest.flatten(input_tensor_spec)) > 1
TooManySpecs(n_specs) == n_specs > 1

\* --------------------------------------------------------- BatchSquash
\* utils.BatchSquash(batch_dims)
BatchSquash(batch_dims) ==
  [batch_dims |-> batch_dims, original_shape |-> <<>>]

\* BatchSquash.flatten: remembers the tensor's shape
BatchSquashRemember(bs, t) ==
  IF bs.batch_dims = 1 THEN bs ELSE [bs EXCEPT !.original_shape = t.shape]

\* BatchSquash.flatten: merges the first batch_dims dimensions into one
BatchSquashFlatten(bs, t) ==
  IF bs.batch_dims = 1 THEN t
  ELSE [t EXCEPT !.shape = <<Product(Take(t.shape, bs.batch_dims))>>
                             \o Drop(t.shape, bs.batch_dims)]

\* BatchSquash.unflatten: the remembered batch dimensions, then the tensor's
\* own shape past its first dimension
BatchSquashUnflatten(bs, t) ==
  IF bs.batch_dims = 1 THEN t
  ELSE [t EXCEPT !.shape = Take(bs.original_shape, bs.batch_dims)
                             \o Tail(t.shape)]

\* nest_utils.get_outer_rank(observation, input_tensor_spec)
GetOuterRank(observation) == Len(observation.shape) - Len(ObsShape)

\* ------------------------------------------------ the statements of call
\* variant: only "outer_rank must be at least 1" is enforced
OuterRankBelowOne(num_outer_dims) == num_outer_dims < 1

\* num_outer_dims not in (1, 2)
OuterRankRejected(num_outer_dims) == num_outer_dims \notin {1, 2}

\* has_time_dim = num_outer_dims == 2
HasTimeDim(num_outer_dims) == num_outer_dims = 2

\* variant: the time dimension is added in front of the batch dimension
AddTimeDimAxis0(has_time_dim, t) ==
  IF has_time_dim THEN t ELSE [t EXCEPT !.shape = <<1>> \o t.shape]

\* observation = expand_dims(observation, 1) when there is no time dimension
AddTimeDim(has_time_dim, t) == IF has_time_dim THEN t ELSE ExpandDims1(t)

\* batch_squash = utils.BatchSquash(2)
NewBatchSquash == BatchSquash(2)

\* states = batch_squash.flatten(states), before the input layers
FlattenStates(bs, t) == BatchSquashFlatten(bs, t)

\* variant: the unflatten after the input layers is left out
UnflattenStatesSkipped(bs, t) == t

\* states = batch_squash.unflatten(states), after the input layers
UnflattenStates(bs, t) == BatchSquashUnflatten(bs, t)

\* variant: the mask marks the LAST steps
ResetMaskLast(step_type) ==
  [shape |-> step_type.shape, dtype |-> "bool", layers |-> <<>>,
   data |-> [i \in DOMAIN step_type.data |-> step_type.data[i] = "LAST"]]

\* variant: the mask of a time step is set for every batch item as soon as one
\* batch item is at FIRST
ResetMaskAnyBatch(step_type) ==
  [shape |-> step_type.shape, dtype |-> "bool", layers |-> <<>>,
   data |-> [i \in DOMAIN step_type.data |->
               \E j \in DOMAIN step_type.data :
                 /\ (j - 1) % step_type.shape[2] = (i - 1) % step_type.shape[2]
                 /\ step_type.data[j] = StepTypeFIRST]]

\* reset_mask = tf.equal(step_type, time_step.StepType.FIRST)
ResetMask(step_type) ==
  [shape |-> step_type.shape, dtype |-> "bool", layers |-> <<>>,
   data |-> [i \in DOMAIN step_type.data |-> step_type.data[i] = StepTypeFIRST]]

\* variant: the flatten after the unroll is left out
FlattenOutputsSkipped(bs, t) == t

\* states = batch_squash.flatten(states), after the unroll
FlattenOutputs(bs, t) == BatchSquashFlatten(bs, t)

\* variant: the value keeps its last dimension of size 1
ReshapeValueKept(t) == t

\* value = tf.reshape(value, [-1])
ReshapeValue(t) == ReshapeFlat(t)

\* value = batch_squash.unflatten(value)
UnflattenValue(bs, t) == BatchSquashUnflatten(bs, t)

\* --------------------------------------------------------- DynamicUnroll
ZeroState == <<>>

\* initial_state=None stands for the cell's zero state
InitialState(network_state, B) ==
  IF network_state.given THEN network_state.val ELSE [b \in 1..B |-> ZeroState]

\* the state fed to the cell: the zero state where the mask is set
FedState(is_reset, state) == IF is_reset THEN ZeroState ELSE state

\* one cell step on one batch item: the new state, which is also the output row
CellStep(input, state) == state \o input

\* batch-major [B, T, units] tensor of the outputs collected time-major
UnrollOutputs(cell, inputs, B, T, out) ==
  [shape |-> <<B, T, cell.units>>, dtype |-> "float32",
   layers |-> Append(inputs.layers, cell),
   data |-> [i \in 1..(B * T) |-> out[((i - 1) % T) + 1][((i - 1) \div T) + 1]]]

\* --------------------------------------------------------------- inputs
RECURSIVE ShapesOfRank(_)
ShapesOfRank(r) ==
  IF r = 0 THEN {<<>>}
  ELSE {Append(s, d) : s \in ShapesOfRank(r - 1), d \in 1..MaxCells}

\* outer shapes of the observations passed to call
OuterShapes ==
  {s \in UNION {ShapesOfRank(r) : r \in 0..MaxOuterRank} : Product(s) <= MaxCells}

BatchOf(outer) == IF outer = <<>> THEN 1 ELSE outer[1]

\* network_state: not passed, zeros, or a non-zero state per batch item
NetworkStateChoices(B) ==
  {NoneArg, Some([b \in 1..B |-> ZeroState]), Some([b \in 1..B |-> <<0 - b>>])}

\* ---------------------------------------------------------------- state
VARIABLES
  phase,                   \* "new", "built" or "ctor_error" (ValueError in __init__)
  ctor_args,               \* the arguments __init__ was called with
  fields,                  \* the attributes of self that have been assigned
  input_layers, dynamic_unroll, output_layers, value_projection_layer,
  state_spec,
  pc,                      \* position of the call
  call_args,               \* the arguments call was called with
  step_type, network_state,                \* call's parameters, as rebound
  has_time_dim, states, batch_squash, reset_mask,
  unroll_t, rnn_state, unroll_out,         \* DynamicUnroll's time loop
  returned,                \* what call returned
  applied,                 \* log: the layers called, with the shape each was given
  cell_steps               \* log: the steps of the cell

net_vars == <<phase, ctor_args, fields, input_layers, dynamic_unroll,
              output_layers, value_projection_layer, state_spec>>
arg_vars == <<call_args, step_type, has_time_dim, reset_mask>>
loop_vars == <<unroll_t, rnn_state, unroll_out, cell_steps>>
vars == <<net_vars, arg_vars, loop_vars, pc, network_state, states,
          batch_squash, returned, applied>>

NoLayer == Layer("unset", 0, 0, 0)
NoArgs == [outer |-> <<>>, step_type |-> <<>>, network_state |-> NoneArg]
NoCtorArgs == [n_specs |-> 0, conv_layer_params |-> NoneArg,
               input_fc_layer_params |-> NoneArg, lstm_size |-> <<>>,
               output_fc_layer_params |-> NoneArg]
NotReturned == [set |-> FALSE, value |-> NoTensor, network_state |-> <<>>]

Init ==
  /\ phase = "new"
  /\ ctor_args = NoCtorArgs
  /\ fields = {}
  /\ input_layers = <<>>
  /\ dynamic_unroll = NoLayer
  /\ output_layers = <<>>
  /\ value_projection_layer = NoLayer
  /\ state_spec = <<>>
  /\ pc = "idle"
  /\ call_args = NoArgs
  /\ step_type = NoTensor
  /\ network_state = NoneArg
  /\ has_time_dim = FALSE
  /\ states = NoTensor
  /\ batch_squash = BatchSquash(1)
  /\ reset_mask = NoTensor
  /\ unroll_t = 0
  /\ rnn_state = <<>>
  /\ unroll_out = <<>>
  /\ returned = NotReturned
  /\ applied = <<>>
  /\ cell_steps = <<>>

\* ------------------------------------------------------------- __init__
Construct ==
  \E n_specs \in 1..MaxSpecs, conv \in ConvChoices, in_fc \in FcChoices,
     lstm_size \in LstmChoices, out_fc \in FcChoices :
    /\ phase = "new"
    /\ ctor_args' = [n_specs |-> n_specs, conv_layer_params |-> conv,
                     input_fc_layer_params |-> in_fc, lstm_size |-> lstm_size,
                     output_fc_layer_params |-> out_fc]
    /\ IF TooManySpecs(n_specs)
         THEN /\ phase' = "ctor_error"
              /\ UNCHANGED <<fields, input_layers, dynamic_unroll, output_layers,
                             value_projection_layer, state_spec>>
         ELSE /\ phase' = "built"
              /\ input_layers' = MlpLayers(conv, in_fc)
              /\ dynamic_unroll' = MakeCell(lstm_size)
              /\ state_spec' = StateSpec(lstm_size)
              /\ output_layers' = OutputLayers(out_fc)
              /\ value_projection_layer' = ValueProjectionLayer
              /\ fields' = {"_conv_layer_params", "_input_layers", "_dynamic_unroll",
                            "_output_layers", "_value_projection_layer"}
    /\ UNCHANGED <<arg_vars, loop_vars, pc, network_state, states, batch_squash,
                   returned, applied>>

\* ----------------------------------------------------------------- call
\* call, up to the outer-rank check.  Only the observation has been read so
\* far: step_type and network_state are drawn where call first reads them.
CallCheck ==
  \E outer \in OuterShapes :
    LET num_outer_dims == GetOuterRank(ObservationOf(outer))
    IN
    /\ phase = "built"
    /\ pc = "idle"
    /\ call_args' = [call_args EXCEPT !.outer = outer]
    /\ pc' = IF OuterRankRejected(num_outer_dims) THEN "ValueError" ELSE "checked"
    /\ UNCHANGED <<net_vars, loop_vars, step_type, has_time_dim, reset_mask,
                   network_state, states, batch_squash, returned, applied>>

\* call, from the check to the time loop of the unroll: the added time
\* dimension, the cast, the squashed input layers, the reset mask and the
\* entry of self._dynamic_unroll(states, reset_mask, initial_state=network_state)
CallBegin ==
  \E st \in [1..Product(call_args.outer) -> StepTypes],
     ns \in NetworkStateChoices(BatchOf(call_args.outer)) :
    LET outer == call_args.outer
        obs == ObservationOf(outer)
        stt == [shape |-> outer, dtype |-> "int32", layers |-> <<>>, data |-> st]
        htd == HasTimeDim(GetOuterRank(obs))
        obs2 == CastFloat32(AddTimeDim(htd, obs))
        stt2 == AddTimeDim(htd, stt)
        bs == BatchSquashRemember(NewBatchSquash, obs2)
        run == RunLayers(input_layers, [t |-> FlattenStates(bs, obs2), log |-> <<>>])
        unflat == UnflattenStates(bs, run.t)
        mask == ResetMask(stt2)
    IN
    /\ pc = "checked"
    /\ call_args' = [call_args EXCEPT !.step_type = st, !.network_state = ns]
    /\ network_state' = ns
    /\ has_time_dim' = htd
    /\ step_type' = stt2
    /\ batch_squash' = bs
    /\ states' = unflat
    /\ reset_mask' = mask
    /\ applied' = Append(run.log, [layer |-> dynamic_unroll, in_shape |-> unflat.shape])
    /\ IF Len(unflat.shape) >= 2 /\ Take(unflat.shape, 2) = mask.shape
         THEN /\ rnn_state' = InitialState(ns, mask.shape[1])
              /\ unroll_t' = 1
              /\ pc' = "unroll"
         ELSE /\ pc' = "ShapeError"
              /\ UNCHANGED <<rnn_state, unroll_t>>
    /\ UNCHANGED <<net_vars, unroll_out, cell_steps, returned>>

\* one time step of the unroll, for every batch item
UnrollStep ==
  LET B == reset_mask.shape[1]
      T == reset_mask.shape[2]
      t == unroll_t
      mask == [b \in 1..B |-> reset_mask.data[Idx(b, t, T)]]
      input == [b \in 1..B |-> states.data[Idx(b, t, T)]]
      fed == [b \in 1..B |-> FedState(mask[b], rnn_state[b])]
      new_state == [b \in 1..B |-> CellStep(input[b], fed[b])]
  IN
  /\ pc = "unroll"
  /\ unroll_t <= T
  /\ cell_steps' = Append(cell_steps, [t |-> t, carried |-> rnn_state, fed |-> fed,
                                       input |-> input, new_state |-> new_state])
  /\ rnn_state' = new_state
  /\ unroll_out' = Append(unroll_out, new_state)
  /\ unroll_t' = t + 1
  /\ UNCHANGED <<net_vars, arg_vars, pc, network_state, states, batch_squash,
                 returned, applied>>

\* call, from the end of the unroll: the unrolled outputs and final state, the
\* squashed output layers and value projection, the reshape, the last
\* unflatten and the return
CallFinish ==
  LET B == reset_mask.shape[1]
      T == reset_mask.shape[2]
      outs == UnrollOutputs(dynamic_unroll, states, B, T, unroll_out)
      bs == BatchSquashRemember(batch_squash, outs)
      run == RunLayers(output_layers, [t |-> FlattenOutputs(bs, outs), log |-> applied])
      value == LayerCall(value_projection_layer, run.t)
      v == UnflattenValue(bs, ReshapeValue(value))
  IN
  /\ pc = "unroll"
  /\ unroll_t > T
  /\ states' = outs
  /\ network_state' = Some(rnn_state)
  /\ batch_squash' = bs
  /\ applied' = Append(run.log, [layer |-> value_projection_layer,
                                 in_shape |-> run.t.shape])
  /\ returned' = [set |-> TRUE, value |-> v, network_state |-> rnn_state]
  /\ pc' = "done"
  /\ UNCHANGED <<net_vars, arg_vars, loop_vars>>

Next ==
  \/ Construct
  \/ CallCheck
  \/ CallBegin
  \/ UnrollStep
  \/ CallFinish

Spec == Init /\ [][Next]_vars

\* ------------------------------------------------------------------------
\* Properties.  They are stated over the arguments of the call (call_args,
\* ctor_args) and what the call logged and returned.
\* ------------------------------------------------------------------------
ArgRank == Len(call_args.outer)
ArgB == call_args.outer[1]
ArgT == IF ArgRank = 2 THEN call_args.outer[2] ELSE 1
\* the step type passed for batch item b at time t
ArgStepType(b, t) == call_args.step_type[Idx(b, t, ArgT)]
\* the recurrent state item b starts from: the passed-in one, zero if none was
ArgState(b) ==
  IF call_args.network_state.given THEN call_args.network_state.val[b] ELSE ZeroState
CallRunning == pc \notin {"idle", "checked", "ValueError"}

\* C1: a batch-only observation (one outer dimension, of size batch_size)
\* gives a value of shape [batch_size].
C1_BatchOnlyValueShape ==
  (pc = "done" /\ ArgRank = 1) => returned.value.shape = <<ArgB>>

\* what the call returns for a batch-only observation: the added time
\* dimension is still there
C1_ReturnedShape ==
  (pc = "done" /\ ArgRank = 1) => returned.value.shape = <<ArgB, 1>>

\* C2: a [batch_size, time_steps] observation gives a value of shape exactly
\* [batch_size, time_steps], whatever the layer widths.
C2_BatchTimeValueShape ==
  (pc = "done" /\ ArgRank = 2) => returned.value.shape = call_args.outer

C2_Witness ==
  /\ pc = "done"
  /\ call_args.outer = <<2, 2>>
  /\ returned.value.shape = <<2, 2>>
  /\ ctor_args.conv_layer_params.given
  /\ ctor_args.output_fc_layer_params = Some(<<3, 2>>)

\* C3 (as claimed): at every step of the unroll the state fed to the cell for
\* item b is the zero state if and only if step_type[b, t] is FIRST.
C3_ResetIffFirst ==
  CallRunning =>
    \A i \in DOMAIN cell_steps : \A b \in DOMAIN cell_steps[i].fed :
      (cell_steps[i].fed[b] = ZeroState) <=> (ArgStepType(b, cell_steps[i].t) = "FIRST")

\* C3 (amended): at every step of the unroll the state fed to the cell for item
\* b is the zero state if step_type[b, t] is FIRST, and the carried state
\* otherwise (which may itself be zero).
C3_ResetAtFirst ==
  CallRunning =>
    \A i \in DOMAIN cell_steps :
      /\ Len(cell_steps[i].fed) = ArgB
      /\ \A b \in 1..ArgB :
           cell_steps[i].fed[b] =
             IF ArgStepType(b, cell_steps[i].t) = "FIRST"
               THEN ZeroState ELSE cell_steps[i].carried[b]

\* a non-zero network_state was passed, the sequence starts with FIRST and
\* holds a second FIRST whose carried state is not zero
C3_Witness ==
  /\ pc = "done"
  /\ call_args.outer = <<1, 3>>
  /\ call_args.network_state = Some(<< <<0 - 1>> >>)
  /\ call_args.step_type = <<"FIRST", "MID", "FIRST">>
  /\ cell_steps[1].carried[1] # ZeroState /\ cell_steps[1].fed[1] = ZeroState
  /\ cell_steps[3].carried[1] # ZeroState /\ cell_steps[3].fed[1] = ZeroState

\* C4: unflatten after flatten restores the leading shape [B, T], for the pair
\* around the input layers and for the pair around the output layers, which
\* reuses the BatchSquash object.
C4_SquashRoundTrip ==
  /\ (CallRunning /\ pc # "done") => 
       /\ Len(states.shape) >= 2
       /\ Take(states.shape, 2) = <<ArgB, ArgT>>
       /\ Take(batch_squash.original_shape, 2) = <<ArgB, ArgT>>
  /\ pc = "done" =>
       /\ batch_squash.original_shape = states.shape
       /\ Take(states.shape, 2) = <<ArgB, ArgT>>
       /\ Len(returned.value.shape) >= 2
       /\ Take(returned.value.shape, 2) = Take(states.shape, 2)

\* both pairs ran, and the trailing shape differs on the two sides of each
C4_Witness ==
  /\ pc = "done"
  /\ call_args.outer = <<2, 2>>
  /\ Drop(states.shape, 2) # ObsShape
  /\ Drop(returned.value.shape, 2) # Drop(states.shape, 2)
  /\ Take(returned.value.shape, 2) = <<2, 2>>

C6_CtorError ==
  /\ phase # "new" => (phase = "ctor_error" <=> ctor_args.n_specs > 1)
  /\ phase = "ctor_error" =>
       /\ fields = {}
       /\ input_layers = <<>> /\ output_layers = <<>>
       /\ dynamic_unroll = NoLayer /\ value_projection_layer = NoLayer
       /\ state_spec = <<>>
  /\ phase = "built" =>
       {"_input_layers", "_dynamic_unroll", "_output_layers",
        "_value_projection_layer"} \subseteq fields

C6_Witness == phase = "ctor_error" /\ ctor_args.n_specs = 2

\* the stages a call must run, from the constructor's arguments: <<kind, units>>
ParamList(param) == IF param.given THEN param.val ELSE <<>>
ExpectedStages ==
  [i \in DOMAIN ParamList(ctor_args.conv_layer_params) |->
     <<"conv", ParamList(ctor_args.conv_layer_params)[i][1]>>]
  \o << <<"flatten", 0>> >>
  \o [i \in DOMAIN ParamList(ctor_args.input_fc_layer_params) |->
        <<"dense", ParamList(ctor_args.input_fc_layer_params)[i]>>]
  \o << <<"lstm", Last(ctor_args.lstm_size)>> >>
  \o [i \in DOMAIN ParamList(ctor_args.output_fc_layer_params) |->
        <<"dense", ParamList(ctor_args.output_fc_layer_params)[i]>>]
  \o << <<"value", 1>> >>

\* C7: a successful call runs conv, flatten, dense, the unroll, the output
\* dense layers and the value projection in that order, each configured layer
\* once; the unroll on the [B, T, ...] tensor, every other layer on the
\* squashed [B*T, ...] tensor.
C7_StageOrder ==
  pc = "done" =>
    /\ [i \in DOMAIN applied |-> <<applied[i].layer.kind, applied[i].layer.units>>]
         = ExpectedStages
    /\ \A i \in DOMAIN applied :
         LET kind == applied[i].layer.kind
             shape == applied[i].in_shape
         IN CASE kind = "lstm" ->
                   Len(shape) = 3 /\ Take(shape, 2) = <<ArgB, ArgT>>
              [] kind \in {"dense", "value"} ->
                   Len(shape) = 2 /\ shape[1] = ArgB * ArgT
              [] OTHER ->
                   Len(shape) = 1 + Len(ObsShape) /\ shape[1] = ArgB * ArgT

C7_Witness ==
  /\ pc = "done"
  /\ call_args.outer = <<2, 2>>
  /\ ctor_args.conv_layer_params.given
  /\ ctor_args.input_fc_layer_params = Some(<<3, 2>>)
  /\ ctor_args.output_fc_layer_params = Some(<<3, 2>>)
  /\ Len(applied) = 8

\* all optional stages absent: flatten, the unroll and the projection remain
C7_WitnessAbsent ==
  /\ pc = "done"
  /\ ~ctor_args.conv_layer_params.given
  /\ ctor_args.input_fc_layer_params = Some(<<>>)
  /\ ~ctor_args.output_fc_layer_params.given
  /\ Len(applied) = 3

\* C8: the cell is stepped once per time step, in increasing time order (once
\* for a batch-only input); a step that is not FIRST is fed the state of the
\* previous step (the passed-in state at the first step); the returned
\* network_state is the state after the last step.
C8_UnrollSteps ==
  /\ CallRunning =>
       /\ Len(cell_steps) <= ArgT
       /\ \A i \in DOMAIN cell_steps :
            /\ cell_steps[i].t = i
            /\ Len(cell_steps[i].fed) = ArgB
            /\ \A b \in 1..ArgB :
                 /\ cell_steps[i].input[b] = <<Idx(b, i, ArgT)>>
                 /\ ArgStepType(b, i) # "FIRST" =>
                      cell_steps[i].fed[b] =
                        IF i = 1 THEN ArgState(b) ELSE cell_steps[i - 1].new_state[b]
  /\ pc = "done" =>
       /\ Len(cell_steps) = ArgT
       /\ returned.network_state = cell_steps[ArgT].new_state

C8_Witness ==
  /\ pc = "done"
  /\ call_args.outer = <<1, 3>>
  /\ call_args.network_state = Some(<< <<0 - 1>> >>)
  /\ call_args.step_type = <<"MID", "LAST", "MID">>
  /\ Len(cell_steps) = 3
  /\ cell_steps[3].fed[1] = cell_steps[2].new_state[1]
  /\ returned.network_state = << <<0 - 1, 1, 2, 3>> >>

\* batch-only input: exactly one step
C8_WitnessBatchOnly ==
  pc = "done" /\ call_args.outer = <<3>> /\ Len(cell_steps) = 1

\* what value[b, t] may depend on: the state item b started from unless a
\* FIRST of item b precedes, then the observations of item b since the last
\* FIRST of item b, up to t
RECURSIVE History(_, _)
History(b, t) ==
  (IF ArgStepType(b, t) = "FIRST" THEN ZeroState
   ELSE IF t = 1 THEN ArgState(b) ELSE History(b, t - 1))
  \o <<Idx(b, t, ArgT)>>

\* C9: value[b, t] and the returned state of item b are computed from the
\* observations, step types and state of item b only, in row-major order: no
\* other batch item and no later time step enters them.
C9_BatchIsolation ==
  pc = "done" =>
    /\ Len(returned.value.data) = ArgB * ArgT
    /\ Len(returned.network_state) = ArgB
    /\ \A b \in 1..ArgB :
         /\ returned.network_state[b] = History(b, ArgT)
         /\ \A t \in 1..ArgT :
              returned.value.data[Idx(b, t, ArgT)] = History(b, t)

\* two batch items with different step types and two time steps each
C9_Witness ==
  /\ pc = "done"
  /\ call_args.outer = <<2, 2>>
  /\ call_args.step_type = <<"MID", "FIRST", "LAST", "MID">>
  /\ call_args.network_state = Some(<< <<0 - 1>>, <<0 - 2>> >>)
  /\ returned.value.data = << <<0 - 1, 1>>, <<2>>, <<0 - 2, 3>>, <<0 - 2, 3, 4>> >>

====
